---- MODULE Spec2Model ----
(***************************************************************************)
(* Model of the commercial-district analytics backend: the radius query    *)
(* engine (SpatialService + its controllers), the result cache in front of *)
(* the plain radius lookup, and the survival calculator (AnalysisService). *)
(*                                                                         *)
(* Units.  Latitude/longitude are integers in 1e-5 degree; radii and       *)
(* distances are integers in millimetres; dates are day numbers; the clock *)
(* is in milliseconds.  Averages and percentages are integers in           *)
(* hundredths.  A date column holds whole days and the server's local date *)
(* equals the UTC date, so every difference of two dates is a whole number *)
(* of days.                                                                *)
(*                                                                         *)
(* survival_analysis is the table of pre-aggregated rows that the batch    *)
(* calculator writes; calls holds the plain lookups that are between two   *)
(* of their awaits; fetched holds the responses a client has received      *)
(* while it fetches the pages of one paged query one after another.        *)
(***************************************************************************)
EXTENDS Integers, Sequences, FiniteSets, TLC

VARIABLES stores, cache, now, resp, nCalls, survival_analysis, calls, fetched

vars == <<stores, cache, now, resp, nCalls, survival_analysis, calls,
          fetched>>

----------------------------------------------------------------------------
(* Bounds of the model *)

MaxCalls == 2
TickMs == 200000
MaxTicks == 2
BigStoreCount == 102
MaxLookups == 3

----------------------------------------------------------------------------
(* Values *)

NoSector == "<undefined>"
NullSector == "<null>"
NullLoc == <<>>
NullDate == -1000000

Truthy(s) == s # NoSector /\ s # ""

IsBlank(s) == s \in {"", " "}

Abs(x) == IF x < 0 THEN -x ELSE x

Min2(a, b) == IF a < b THEN a ELSE b

\* Math.round(n / d) for d > 0: nearest integer, halves towards +infinity
MathRound(n, d) == (2 * n + d) \div (2 * d)

\* Math.ceil(n / d) for d > 0
MathFloor(n, d) == n \div d

MathCeil(n, d) == -((-n) \div d)


----------------------------------------------------------------------------
(* Program constants *)

\* LIMIT 100 of the plain radius query
ListLimit == 100

\* cacheManager.set(cacheKey, result, 300000)
CacheTtlMs == 300000

\* radius range accepted by the controllers, in millimetres (1 m .. 10000 m)
MinRadiusMm == 1000
MaxRadiusMm == 10000000

\* latitude / longitude range accepted by the controllers, in 1e-5 degree
MaxLat == 9000000
MaxLng == 18000000

\* default page / page size / sort order of the paged endpoint
DefaultPage == 1
DefaultLimit == 20
DefaultSort == "open_date_desc"

\* Earth radius 6,371,000 m: one 1e-5 degree of arc is 1.11195 m
MmPerUnit == 1112

\* offsets up to NearUnits are measured exactly; the coordinate sets of the
\* model hold only points that are within NearUnits of each other or more
\* than 10 km apart
NearUnits == 29
FarMm == 2000000000

----------------------------------------------------------------------------
(* PostGIS primitives used by the queries *)

RECURSIVE ISqrtIter(_, _, _)
ISqrtIter(n, lo, hi) ==
    IF lo = hi THEN lo
    ELSE LET mid == (lo + hi + 1) \div 2
         IN  IF mid * mid <= n THEN ISqrtIter(n, mid, hi)
                               ELSE ISqrtIter(n, lo, mid - 1)

ISqrt(n) == ISqrtIter(n, 0, 46340)

\* ST_Distance(location::geography, ST_MakePoint(lng, lat)::geography) in mm
ST_Distance(loc, lat, lng) ==
    LET dy == Abs(loc[1] - lat)
        dx == Abs(loc[2] - lng)
    IN  IF dy <= NearUnits /\ dx <= NearUnits
        THEN ISqrt((dy * MmPerUnit) * (dy * MmPerUnit)
                   + (dx * MmPerUnit) * (dx * MmPerUnit))
        ELSE FarMm

\* a filter that only asks for a location
ST_DWithinAnywhere(loc, lat, lng, radiusMm) == loc # NullLoc

\* location IS NOT NULL AND ST_DWithin(location, point, radius)
ST_DWithin(loc, lat, lng, radiusMm) ==
    /\ loc # NullLoc
    /\ ST_Distance(loc, lat, lng) <= radiusMm

----------------------------------------------------------------------------
(* The store table and the rows a query returns *)

StoreIds == 1 .. Len(stores)

IdSeq == [i \in 1 .. Len(stores) |-> i]

\* WHERE clause of the radius queries; the sector condition is added only
\* for a truthy sector, and "sector" = $4 never matches a NULL sector
MatchesRadius(i, lat, lng, radiusMm, sector) ==
    /\ ST_DWithin(stores[i].location, lat, lng, radiusMm)
    /\ (Truthy(sector) => stores[i].sector = sector)

MatchingSet(lat, lng, radiusMm, sector) ==
    {i \in StoreIds : MatchesRadius(i, lat, lng, radiusMm, sector)}

\* the order in which the database returns rows that tie on the ORDER BY
\* expression is unspecified: each query draws one tie-break ranking
SmallTieBreaks == Permutations(1 .. 3)

TieBreaks ==
    IF Len(stores) = 3
    THEN SmallTieBreaks
    ELSE {[i \in StoreIds |-> i], [i \in StoreIds |-> Len(stores) + 1 - i]}

\* ascending rank of a sector under ORDER BY "sector" ASC (NULLS LAST)
SectorRank(s) ==
    CASE s = "C10" -> 1
      [] s = "I20" -> 2
      [] s = "all" -> 3
      [] OTHER -> 4

MaxDay == 1000

\* ORDER BY clause as an integer key: rows come back in ascending key order
OrderKey(sortBy, i, lat, lng) ==
    CASE sortBy = "distance_asc" -> ST_Distance(stores[i].location, lat, lng)
      [] sortBy = "distance_desc" -> -ST_Distance(stores[i].location, lat, lng)
      [] sortBy = "open_date_desc" -> -stores[i].openDate
      [] sortBy = "open_date_asc" -> stores[i].openDate
      [] sortBy = "sector_asc" ->
             SectorRank(stores[i].sector) * (MaxDay + 1) - stores[i].openDate
      [] OTHER -> -stores[i].openDate

\* SELECT ... WHERE ... ORDER BY ...: the matching row ids in result order
QueryRows(lat, lng, radiusMm, sector, sortBy, tb) ==
    LET Match(i) == MatchesRadius(i, lat, lng, radiusMm, sector)
        ids == SelectSeq(IdSeq, Match)
        keyed == [k \in 1 .. Len(ids) |->
                    <<OrderKey(sortBy, ids[k], lat, lng) * (Len(stores) + 1)
                        + tb[ids[k]], ids[k]>>] \o <<>>
        Before(a, b) == a[1] < b[1]
        sorted == SortSeq(keyed, Before)
    IN  [k \in 1 .. Len(sorted) |-> sorted[k][2]] \o <<>>

\* LIMIT lim OFFSET off
LimitOffset(rows, lim, off) ==
    SubSeq(rows, off + 1, Min2(Len(rows), off + lim))


----------------------------------------------------------------------------
(* Result cache (cache-manager in front of the plain lookup) *)

\* a key that keeps the radius as given
generateCacheKeyExactRadius(lat, lng, radiusMm, sector) ==
    <<MathRound(lat, 10), MathRound(lng, 10), radiusMm,
      IF Truthy(sector) THEN sector ELSE "all">>

\* `spatial:stores:${roundedLat}:${roundedLng}:${roundedRadius}${sectorPart}`
generateCacheKey(lat, lng, radiusMm, sector) ==
    LET roundedLat == MathRound(lat, 10)
        roundedLng == MathRound(lng, 10)
        roundedRadius == MathRound(radiusMm, 100000) * 100
        sectorPart == IF Truthy(sector) THEN sector ELSE "all"
    IN  <<roundedLat, roundedLng, roundedRadius, sectorPart>>

\* a get that never expires an entry
CacheGetForever(key) ==
    IF key \in DOMAIN cache
    THEN [hit |-> TRUE, value |-> cache[key].value]
    ELSE [hit |-> FALSE, value |-> <<>>]

\* cacheManager.get(key): the stored value unless absent or past its TTL
CacheGet(key) ==
    IF key \in DOMAIN cache /\ now - cache[key].storedAt <= CacheTtlMs
    THEN [hit |-> TRUE, value |-> cache[key].value]
    ELSE [hit |-> FALSE, value |-> <<>>]

\* a set that adds the new items to the entry that is there
CacheSetMerging(key, value) ==
    (key :> [value |-> (IF key \in DOMAIN cache THEN cache[key].value ELSE <<>>)
                       \o value,
             storedAt |-> now]) @@ cache

\* cacheManager.set(key, value, ttl): atomic replace of the entry
CacheSet(key, value) ==
    (key :> [value |-> value, storedAt |-> now]) @@ cache

----------------------------------------------------------------------------
(* SpatialService *)

\* row -> StoreWithinRadiusRow of the plain lookup
PlainItem(i) ==
    [id |-> i, sector |-> stores[i].sector, location |-> stores[i].location]

\* row -> StoreWithinRadiusRow of the paged lookup; the distance is
\* Math.round(distance * 100) / 100, kept in centimetres
EnhancedItem(i, lat, lng) ==
    [id |-> i, sector |-> stores[i].sector, location |-> stores[i].location,
     distance |-> MathRound(ST_Distance(stores[i].location, lat, lng), 10),
     openDate |-> stores[i].openDate]

\* a plain query that returns the oldest records first
PlainQueryOldestFirst(lat, lng, radiusMm, sector, tb) ==
    LET rows == LimitOffset(
                    QueryRows(lat, lng, radiusMm, sector, "open_date_asc", tb),
                    ListLimit, 0)
    IN  [k \in 1 .. Len(rows) |-> PlainItem(rows[k])]

\* the plain query: ORDER BY "openDate" DESC LIMIT 100, rows mapped to items
PlainQuery(lat, lng, radiusMm, sector, tb) ==
    LET rows == LimitOffset(
                    QueryRows(lat, lng, radiusMm, sector, "open_date_desc", tb),
                    ListLimit, 0)
    IN  [k \in 1 .. Len(rows) |-> PlainItem(rows[k])]

\* a count that is answered from the plain lookup's cache entry when there
\* is one
countStoresInRadiusCached(lat, lng, radiusMm, sector) ==
    LET cachedResult == CacheGet(generateCacheKey(lat, lng, radiusMm, sector))
    IN  IF cachedResult.hit
        THEN Len(cachedResult.value)
        ELSE Cardinality({i \in StoreIds :
                 /\ ST_DWithin(stores[i].location, lat, lng, radiusMm)
                 /\ stores[i].sector = sector})

\* SELECT COUNT(*) ... AND "sector" = $4
countStoresInRadius(lat, lng, radiusMm, sector) ==
    Cardinality({i \in StoreIds :
        /\ ST_DWithin(stores[i].location, lat, lng, radiusMm)
        /\ stores[i].sector = sector})

BadRequest(op, req, why) ==
    [op |-> op, status |-> "bad_request", error |-> why, req |-> req,
     body |-> <<>>, dbQueries |-> 0, cacheOps |-> <<>>]

Ok(op, req, body, dbQueries, cacheOps) ==
    [op |-> op, status |-> "ok", error |-> "", req |-> req,
     body |-> body, dbQueries |-> dbQueries, cacheOps |-> cacheOps]

\* an error of the storage, logged and thrown again to the caller
Failed(op, req, why, dbQueries, cacheOps) ==
    [op |-> op, status |-> "error", error |-> why, req |-> req,
     body |-> <<>>, dbQueries |-> dbQueries, cacheOps |-> cacheOps]

\* SpatialService.findStoresWithinRadius: cache get, and on a miss the
\* storage query followed by cache set
findStoresWithinRadius(req) ==
    LET cacheKey == generateCacheKey(req.lat, req.lng, req.radius, req.sector)
        cachedResult == CacheGet(cacheKey)
    IN  IF cachedResult.hit
        THEN /\ resp' = Ok("list", req, cachedResult.value, 0, <<"get">>)
             /\ UNCHANGED cache
        ELSE \E tb \in TieBreaks :
               LET result == PlainQuery(req.lat, req.lng, req.radius,
                                        req.sector, tb)
               IN  /\ cache' = CacheSet(cacheKey, result)
                   /\ resp' = Ok("list", req, result, 1, <<"get", "set">>)

\* SpatialService.findStoresWithinRadiusEnhanced: count query, then data
\* query with LIMIT limit OFFSET (page - 1) * limit; never cached.  The
\* storage refuses a negative LIMIT or OFFSET, and the error is thrown again
findStoresWithinRadiusEnhanced(req, page, limit, sortBy) ==
    \E tb \in TieBreaks :
      LET totalCount == Cardinality(MatchingSet(req.lat, req.lng, req.radius,
                                                req.sector))
          totalPages == MathCeil(totalCount, limit)
          offset == (page - 1) * limit
          rows == LimitOffset(
                      QueryRows(req.lat, req.lng, req.radius, req.sector,
                                sortBy, tb),
                      limit, offset)
          items == [k \in 1 .. Len(rows) |->
                      EnhancedItem(rows[k], req.lat, req.lng)]
      IN  /\ resp' = IF limit < 0 \/ offset < 0
                      THEN Failed("paged", req, "storage", 2, <<>>)
                      ELSE Ok("paged", req,
                              [stores |-> items, totalCount |-> totalCount,
                               page |-> page, limit |-> limit,
                               totalPages |-> totalPages,
                               hasNext |-> page < totalPages,
                               hasPrev |-> page > 1],
                              2, <<>>)
          /\ UNCHANGED cache


----------------------------------------------------------------------------
(* Controllers: range checks, then the service call *)

\* range guards whose lower radius bound is exclusive
CheckCoordinatesExclusive(lat, lng, radiusMm) ==
    IF lat < -MaxLat \/ lat > MaxLat THEN "lat"
    ELSE IF lng < -MaxLng \/ lng > MaxLng THEN "lng"
    ELSE IF radiusMm <= MinRadiusMm THEN "radius_min"
    ELSE IF radiusMm > MaxRadiusMm THEN "radius_max"
    ELSE "ok"

\* the lat / lng / radius guards shared by the three radius endpoints
CheckCoordinates(lat, lng, radiusMm) ==
    IF lat < -MaxLat \/ lat > MaxLat THEN "lat"
    ELSE IF lng < -MaxLng \/ lng > MaxLng THEN "lng"
    ELSE IF radiusMm < MinRadiusMm THEN "radius_min"
    ELSE IF radiusMm > MaxRadiusMm THEN "radius_max"
    ELSE "ok"

\* SpatialController.getStoresWithinRadius
ValidatePlain(req) ==
    LET c == CheckCoordinates(req.lat, req.lng, req.radius)
    IN  IF c # "ok" THEN c
        ELSE IF req.sector # NoSector /\ IsBlank(req.sector) THEN "sector"
        ELSE "ok"

\* SpatialController.getStoresWithinRadiusEnhanced
ValidateEnhanced(req) == CheckCoordinates(req.lat, req.lng, req.radius)

\* AnalysisController.getCompetitionCount
ValidateCompetition(req) ==
    LET c == CheckCoordinates(req.lat, req.lng, req.radius)
    IN  IF c # "ok" THEN c
        ELSE IF ~Truthy(req.sector) \/ IsBlank(req.sector) THEN "sector"
        ELSE "ok"

\* an endpoint that runs the lookup first and checks the ranges afterwards
GetStoresWithinRadiusLateCheck(req) ==
    /\ nCalls < MaxCalls
    /\ nCalls' = nCalls + 1
    /\ IF ValidatePlain(req) # "ok"
       THEN \E tb \in TieBreaks :
              /\ cache' = CacheSet(
                             generateCacheKey(req.lat, req.lng, req.radius,
                                              req.sector),
                             PlainQuery(req.lat, req.lng, req.radius,
                                        req.sector, tb))
              /\ resp' = BadRequest("list", req, ValidatePlain(req))
       ELSE findStoresWithinRadius(req)
    /\ UNCHANGED <<stores, now, survival_analysis, calls, fetched>>

\* GET /spatial/stores-within-radius
GetStoresWithinRadius(req) ==
    /\ nCalls < MaxCalls
    /\ nCalls' = nCalls + 1
    /\ IF ValidatePlain(req) # "ok"
       THEN /\ resp' = BadRequest("list", req, ValidatePlain(req))
            /\ UNCHANGED cache
       ELSE findStoresWithinRadius(req)
    /\ UNCHANGED <<stores, now, survival_analysis, calls, fetched>>

\* GET /spatial/stores-within-radius-enhanced
GetStoresWithinRadiusEnhanced(req) ==
    /\ nCalls < MaxCalls
    /\ nCalls' = nCalls + 1
    /\ IF ValidateEnhanced(req) # "ok"
       THEN /\ resp' = BadRequest("paged", req, ValidateEnhanced(req))
            /\ UNCHANGED cache
       ELSE findStoresWithinRadiusEnhanced(
                req,
                IF req.page # 0 THEN req.page ELSE DefaultPage,
                IF req.limit # 0 THEN req.limit ELSE DefaultLimit,
                IF req.sortBy # "" THEN req.sortBy ELSE DefaultSort)
    /\ UNCHANGED <<stores, now, survival_analysis, calls, fetched>>

\* GET /analysis/competition -> AnalysisService.getCompetition
GetCompetitionCount(req) ==
    /\ nCalls < MaxCalls
    /\ nCalls' = nCalls + 1
    /\ IF ValidateCompetition(req) # "ok"
       THEN resp' = BadRequest("count", req, ValidateCompetition(req))
       ELSE resp' = Ok("count", req,
                       [totalCount |-> countStoresInRadius(
                                           req.lat, req.lng, req.radius,
                                           req.sector),
                        sector |-> req.sector],
                       1, <<>>)
    /\ UNCHANGED <<stores, cache, now, survival_analysis, calls, fetched>>

\* the wall clock advances between requests
Tick ==
    /\ now < MaxTicks * TickMs
    /\ now' = now + TickMs
    /\ UNCHANGED <<stores, cache, resp, nCalls, survival_analysis, calls, fetched>>

----------------------------------------------------------------------------
(* Store data and requests of the radius specification *)

Store(id, sector, openDate, closeDate, location) ==
    [id |-> id, sector |-> sector, openDate |-> openDate,
     closeDate |-> closeDate, location |-> location]

SmallDatasets ==
    {<<Store(1, "C10", 100, NullDate, <<0, 0>>),
       Store(2, sb, 200, NullDate, <<7, 0>>),
       Store(3, c[1], 100, NullDate, c[2])>> :
        sb \in {"C10", "I20"},
        c \in {<<NullSector, <<4, 3>>>>, <<"C10", NullLoc>>}}

BigDataset ==
    [i \in 1 .. BigStoreCount |->
        Store(i, IF i % 10 = 0 THEN "I20" ELSE "C10", (i + 1) \div 2, NullDate,
              IF i = 51 THEN NullLoc
              ELSE IF i % 7 = 0 THEN <<7, 0>> ELSE <<0, 0>>)]

Req(lat, lng, radiusMm, sector, page, limit, sortBy) ==
    [lat |-> lat, lng |-> lng, radius |-> radiusMm, sector |-> sector,
     page |-> page, limit |-> limit, sortBy |-> sortBy]

PlainReq(q) == Req(q[1], q[2], q[3], q[4], 0, 0, "")

\* query points and radii around the stores
CoreQueries ==
    {<<lat, 0, r, sec>> : lat \in {1, 4}, r \in {3337, 5000},
                          sec \in {NoSector, "C10"}}

\* one input at a time at and beyond the accepted ranges
BoundaryQueries ==
    {<<lat, 0, 5000, "C10">> : lat \in {-9000010, -9000000, 9000000, 9000010}}
    \cup {<<1, lng, 5000, "C10">> : lng \in {-18000001, -18000000, 18000000, 18000001}}
    \cup {<<1, 0, r, "C10">> : r \in {0, 999, 1000, 10000000, 10000001, 10001000}}
    \cup {<<1, 0, 5000, sec>> : sec \in {NoSector, "", " ", "I20"}}

\* a rejected request of each kind
InvalidQueries ==
    {<<9000010, 0, 5000, "C10">>, <<1, 0, 0, "C10">>, <<1, 0, 5000, " ">>}

SortOptions ==
    {"distance_asc", "distance_desc", "open_date_desc", "open_date_asc",
     "sector_asc"}

PlainRequests ==
    {PlainReq(q) : q \in CoreQueries \cup InvalidQueries
                         \cup {<<6, 0, 5000, NoSector>>, <<1, 0, 5000, "all">>}}

CountRequests ==
    {PlainReq(q) : q \in {c \in CoreQueries : c[4] = "C10"} \cup InvalidQueries}

PagedRequests ==
    {Req(q[1], q[2], q[3], q[4], page, limit, sortBy) :
        q \in {c \in CoreQueries : c[1] = 4},
        page \in {0, 1, 2, 3}, limit \in {0, 1, 2}, sortBy \in SortOptions \cup {""}}
    \cup {PlainReq(q) : q \in InvalidQueries}

BoundaryRequests == {PlainReq(q) : q \in BoundaryQueries}

InitialResponse ==
    [op |-> "none", status |-> "none", error |-> "",
     req |-> Req(0, 0, 0, NoSector, 0, 0, ""),
     body |-> <<>>, dbQueries |-> 0, cacheOps |-> <<>>]

Init ==
    /\ stores \in SmallDatasets
    /\ cache = <<>>
    /\ now = 0
    /\ nCalls = 0
    /\ resp = InitialResponse
    /\ survival_analysis = <<>>
    /\ calls = <<>>
    /\ fetched = <<>>

PagedCoreRequests ==
    {Req(4, 0, 5000, NoSector, page, 2, "distance_asc") : page \in {0, 2}}
    \cup {PlainReq(q) : q \in InvalidQueries}

Next ==
    \/ \E req \in PlainRequests : GetStoresWithinRadius(req)
    \/ \E req \in PagedCoreRequests : GetStoresWithinRadiusEnhanced(req)
    \/ \E req \in CountRequests : GetCompetitionCount(req)
    \/ Tick

Spec == Init /\ [][Next]_vars

\* one more request at the end of a run
InitLast ==
    /\ stores \in SmallDatasets
    /\ cache = <<>>
    /\ now = 0
    /\ nCalls = MaxCalls - 1
    /\ resp = InitialResponse
    /\ survival_analysis = <<>>
    /\ calls = <<>>
    /\ fetched = <<>>

\* the paged endpoint over its pages, page sizes and sort orders
NextPaged == \E req \in PagedRequests : GetStoresWithinRadiusEnhanced(req)

SpecPaged == InitLast /\ [][NextPaged]_vars

\* the three radius endpoints at the edges of the accepted ranges
NextEntry ==
    \/ \E req \in BoundaryRequests : GetStoresWithinRadius(req)
    \/ \E req \in BoundaryRequests : GetStoresWithinRadiusEnhanced(req)
    \/ \E req \in BoundaryRequests : GetCompetitionCount(req)

SpecEntry == InitLast /\ [][NextEntry]_vars

\* the paged endpoint with page numbers and page sizes at and beyond the
\* documented ranges (0 stands for a parameter that is not given)
PageLimitRequests ==
    {Req(4, 0, 5000, NoSector, page, limit, "distance_asc") :
        page \in {-1, 0, 1, 2, 3}, limit \in {-1, 0, 1, 100, 101}}

NextPageLimit ==
    \E req \in PageLimitRequests : GetStoresWithinRadiusEnhanced(req)

SpecPageLimit == InitLast /\ [][NextPageLimit]_vars

\* the plain lookup over more rows than the LIMIT
InitCap ==
    /\ stores = BigDataset
    /\ cache = <<>>
    /\ now = 0
    /\ nCalls = 0
    /\ resp = InitialResponse
    /\ survival_analysis = <<>>
    /\ calls = <<>>
    /\ fetched = <<>>

NextCap ==
    \/ \E req \in {PlainReq(q) : q \in CoreQueries} : GetStoresWithinRadius(req)
    \/ Tick

SpecCap == InitCap /\ [][NextCap]_vars

\* plain lookups whose lat, radius and sector agree or differ after the
\* rounding of the cache key, interleaved with the clock
TtlQueries ==
    {<<1, 0, 3337, "C10">>, <<4, 0, 5000, "C10">>, <<6, 0, 5000, "C10">>,
     <<4, 0, 60000, "C10">>, <<4, 0, 5000, NoSector>>, <<1, 0, 5000, NoSector>>}

NextTtl ==
    \/ \E req \in {PlainReq(q) : q \in TtlQueries} : GetStoresWithinRadius(req)
    \/ Tick

SpecTtl == Init /\ [][NextTtl]_vars


----------------------------------------------------------------------------
(* StoreService and AnalysisService: survival statistics *)

\* the day number of "today" (local midnight) in the distribution analysis
ReferenceDay == 5000

\* Number.MAX_SAFE_INTEGER, the open upper end of the last stage, cut to the
\* integer range of the model
MaxSafeInteger == 2147483647

\* rows in the order of an ORDER BY on an integer key, ties by tb
OrderedRows(ids, key, tb) ==
    LET keyed == [k \in 1 .. Len(ids) |->
                    <<key[ids[k]] * (Len(stores) + 1) + tb[ids[k]], ids[k]>>]
                 \o <<>>
        Before(a, b) == a[1] < b[1]
        sorted == SortSeq(keyed, Before)
    IN  [k \in 1 .. Len(sorted) |-> sorted[k][2]] \o <<>>

\* StoreService.findClosedStores: closeDate IS NOT NULL, the sector filter
\* only for a truthy sector, ORDER BY closeDate DESC
findClosedStores(sector, tb) ==
    LET Match(i) == /\ stores[i].closeDate # NullDate
                    /\ (Truthy(sector) => stores[i].sector = sector)
        key == [i \in StoreIds |-> -stores[i].closeDate]
    IN  OrderedRows(SelectSeq(IdSeq, Match), key, tb)

\* StoreService.findOpenStores: closeDate IS NULL, the sector filter only
\* for a truthy sector, ORDER BY openDate ASC
findOpenStores(sector, tb) ==
    LET Match(i) == /\ stores[i].closeDate = NullDate
                    /\ (Truthy(sector) => stores[i].sector = sector)
        key == [i \in StoreIds |->
                  IF stores[i].openDate = NullDate THEN MaxDay * 10
                  ELSE stores[i].openDate]
    IN  OrderedRows(SelectSeq(IdSeq, Match), key, tb)

RECURSIVE SumSeq(_)
SumSeq(q) == IF q = <<>> THEN 0 ELSE Head(q) + SumSeq(Tail(q))

\* sectorGroups.get(sector).push(value), creating the group on first use;
\* the Map keeps the groups in insertion order
PushToGroup(groups, sector, value) ==
    IF \E g \in 1 .. Len(groups) : groups[g].sector = sector
    THEN [g \in 1 .. Len(groups) |->
            IF groups[g].sector = sector
            THEN [groups[g] EXCEPT !.values = Append(@, value)]
            ELSE groups[g]]
    ELSE Append(groups, [sector |-> sector, values |-> <<value>>])

\* the grouping loop of calculateSurvival; a date column holds whole days, so
\* the millisecond difference over 86,400,000 is the difference in days
RECURSIVE GroupDurations(_, _, _, _)
GroupDurations(rows, k, groups, skipNegative) ==
    IF k > Len(rows) THEN groups
    ELSE LET store == stores[rows[k]]
         IN  IF store.closeDate = NullDate \/ store.openDate = NullDate
             THEN GroupDurations(rows, k + 1, groups, skipNegative)
             ELSE LET durationDays == store.closeDate - store.openDate
                  IN  IF skipNegative /\ durationDays < 0
                      THEN GroupDurations(rows, k + 1, groups, skipNegative)
                      ELSE GroupDurations(rows, k + 1,
                               PushToGroup(groups, store.sector, durationDays),
                               skipNegative)

\* a result row whose average is cut to 2 decimals instead of rounded
SurvivalResultTruncated(group) ==
    [sector |-> group.sector,
     avgDurationDays |-> (SumSeq(group.values) * 100) \div Len(group.values),
     sampleSize |-> Len(group.values)]

\* one result row: avgDurationDays is Math.round(avg * 100) / 100, kept in
\* hundredths of a day
SurvivalResult(group) ==
    [sector |-> group.sector,
     avgDurationDays |-> MathRound(SumSeq(group.values) * 100, Len(group.values)),
     sampleSize |-> Len(group.values)]

SurvivalResults(closedStores, skipNegative) ==
    IF Len(closedStores) = 0 THEN <<>>
    ELSE LET groups == GroupDurations(closedStores, 1, <<>>, skipNegative)
         IN  [g \in 1 .. Len(groups) |-> SurvivalResult(groups[g])]

\* AnalysisService.calculateSurvival, with the durationDays < 0 guard
calculateSurvival(sector) ==
    /\ nCalls < MaxCalls
    /\ nCalls' = nCalls + 1
    /\ \E tb \in TieBreaks :
         resp' = Ok("survival", Req(0, 0, 0, sector, 0, 0, ""),
                    SurvivalResults(findClosedStores(sector, tb), TRUE),
                    1, <<>>)
    /\ UNCHANGED <<stores, cache, now, survival_analysis, calls, fetched>>

\* AnalysisService.calculateSurvival as in analysis.service.ts, where every
\* closed record with both dates is grouped
calculateSurvivalUnguarded(sector) ==
    /\ nCalls < MaxCalls
    /\ nCalls' = nCalls + 1
    /\ \E tb \in TieBreaks :
         resp' = Ok("survival_unguarded", Req(0, 0, 0, sector, 0, 0, ""),
                    SurvivalResults(findClosedStores(sector, tb), FALSE),
                    1, <<>>)
    /\ UNCHANGED <<stores, cache, now, survival_analysis, calls, fetched>>

\* a stage table whose second stage starts one day early
StagesShifted ==
    <<[name |-> "0-1", minDays |-> 0, maxDays |-> 364, label |-> "new"],
      [name |-> "1-3", minDays |-> 365, maxDays |-> 1095, label |-> "settling"],
      [name |-> "3-5", minDays |-> 1096, maxDays |-> 1825, label |-> "growing"],
      [name |-> "5-10", minDays |-> 1826, maxDays |-> 3650, label |-> "mature"],
      [name |-> "10+", minDays |-> 3651, maxDays |-> MaxSafeInteger,
       label |-> "long-running"]>>

\* the stage table of calculateSurvivalDistribution
Stages ==
    <<[name |-> "0-1", minDays |-> 0, maxDays |-> 365, label |-> "new"],
      [name |-> "1-3", minDays |-> 366, maxDays |-> 1095, label |-> "settling"],
      [name |-> "3-5", minDays |-> 1096, maxDays |-> 1825, label |-> "growing"],
      [name |-> "5-10", minDays |-> 1826, maxDays |-> 3650, label |-> "mature"],
      [name |-> "10+", minDays |-> 3651, maxDays |-> MaxSafeInteger,
       label |-> "long-running"]>>

\* the inner loop over the stages: the first stage whose range holds the
\* days, 0 when none does
RECURSIVE FirstStage(_, _)
FirstStage(survivalDays, k) ==
    IF k > Len(Stages) THEN 0
    ELSE IF survivalDays >= Stages[k].minDays /\ survivalDays <= Stages[k].maxDays
         THEN k
         ELSE FirstStage(survivalDays, k + 1)

\* the grouping loop of calculateSurvivalDistribution: records without an
\* openDate or a sector and records opened after today are skipped
RECURSIVE GroupAges(_, _, _)
GroupAges(rows, k, groups) ==
    IF k > Len(rows) THEN groups
    ELSE LET store == stores[rows[k]]
         IN  IF \/ store.openDate = NullDate
                \/ store.sector \in {NullSector, ""}
             THEN GroupAges(rows, k + 1, groups)
             ELSE LET durationDays == ReferenceDay - store.openDate
                  IN  IF durationDays < 0
                      THEN GroupAges(rows, k + 1, groups)
                      ELSE GroupAges(rows, k + 1,
                               PushToGroup(groups, store.sector, durationDays))

\* a result row whose percentages are cut to 2 decimals instead of rounded
DistributionResultTruncated(group) ==
    LET totalCount == Len(group.values)
        StageCount(k) ==
            Cardinality({n \in 1 .. totalCount :
                            FirstStage(group.values[n], 1) = k})
    IN  [sector |-> group.sector,
         stages |-> [k \in 1 .. Len(Stages) |->
                       [stage |-> Stages[k].label,
                        range |-> Stages[k].name,
                        count |-> StageCount(k),
                        percentage |->
                            IF totalCount > 0
                            THEN (StageCount(k) * 10000) \div totalCount
                            ELSE 0]],
         totalCount |-> totalCount]

\* one result row: count and percentage (in hundredths of a percent) of
\* every stage, and the group's totalCount
DistributionResult(group) ==
    LET totalCount == Len(group.values)
        StageCount(k) ==
            Cardinality({n \in 1 .. totalCount :
                            FirstStage(group.values[n], 1) = k})
    IN  [sector |-> group.sector,
         stages |-> [k \in 1 .. Len(Stages) |->
                       [stage |-> Stages[k].label,
                        range |-> Stages[k].name,
                        count |-> StageCount(k),
                        percentage |->
                            IF totalCount > 0
                            THEN MathRound(StageCount(k) * 10000, totalCount)
                            ELSE 0]],
         totalCount |-> totalCount]

\* AnalysisService.calculateSurvivalDistribution
calculateSurvivalDistribution(sector) ==
    /\ nCalls < MaxCalls
    /\ nCalls' = nCalls + 1
    /\ \E tb \in TieBreaks :
         LET openStores == findOpenStores(sector, tb)
             groups == GroupAges(openStores, 1, <<>>)
         IN  resp' = Ok("distribution", Req(0, 0, 0, sector, 0, 0, ""),
                        IF Len(openStores) = 0 THEN <<>>
                        ELSE [g \in 1 .. Len(groups) |->
                                DistributionResult(groups[g])],
                        1, <<>>)
    /\ UNCHANGED <<stores, cache, now, survival_analysis, calls, fetched>>

\* closed-store data: durations of 10/20/30 days and others, a closeDate
\* before the openDate, open stores, a missing sector, a missing openDate
SurvivalDatasets ==
    {<<Store(1, "C10", 1000, a, NullLoc),
       Store(2, "C10", 1000, b, NullLoc),
       Store(3, s3, 1000, c, NullLoc),
       Store(4, d[1], d[2], 1007, NullLoc)>> :
        a \in {1010, 995}, b \in {1020, 1021, NullDate},
        s3 \in {"C10", "I20"}, c \in {1030, 1031, 995},
        d \in {<<"I20", 1000>>, <<NullSector, 1000>>, <<"I20", NullDate>>}}

SurvivalSectors == {NoSector, "C10", "I20", "X99"}

InitSurvival ==
    /\ stores \in SurvivalDatasets
    /\ cache = <<>>
    /\ now = 0
    /\ nCalls = 0
    /\ resp = InitialResponse
    /\ survival_analysis = <<>>
    /\ calls = <<>>
    /\ fetched = <<>>

NextSurvival ==
    \/ \E sector \in SurvivalSectors : calculateSurvival(sector)
    \/ \E sector \in SurvivalSectors : calculateSurvivalUnguarded(sector)

SpecSurvival == InitSurvival /\ [][NextSurvival]_vars

\* open-store data: ages at and around every stage boundary, a store opened
\* tomorrow, a missing sector, and a third store that is closed or open
StageAges == {-1, 0, 365, 366, 400, 1095, 1096, 1825, 1826, 3650, 3651}

StageDatasets ==
    {<<Store(1, "C10", ReferenceDay - a1, NullDate, NullLoc),
       Store(2, s2, ReferenceDay - a2, NullDate, NullLoc),
       Store(3, "C10", ReferenceDay - 100, c3, NullLoc)>> :
        a1 \in StageAges, s2 \in {"C10", "I20", NullSector},
        a2 \in {-1, 365, 366, 3651}, c3 \in {ReferenceDay - 50, NullDate}}

InitStage ==
    /\ stores \in StageDatasets
    /\ cache = <<>>
    /\ now = 0
    /\ nCalls = MaxCalls - 1
    /\ resp = InitialResponse
    /\ survival_analysis = <<>>
    /\ calls = <<>>
    /\ fetched = <<>>

NextStage ==
    \E sector \in {NoSector, "C10", "I20"} : calculateSurvivalDistribution(sector)

SpecStage == InitStage /\ [][NextStage]_vars

----------------------------------------------------------------------------
(* AnalysisService: the location scorer *)

\* threeYearsAgo is now with the year lowered by 3: three years in days
ThreeYearsDays == 1095

\* cacheManager.get / set on a given cache content, for a method that makes
\* several lookups in one call
CacheGetIn(c, key) ==
    IF key \in DOMAIN c /\ now - c[key].storedAt <= CacheTtlMs
    THEN [hit |-> TRUE, value |-> c[key].value]
    ELSE [hit |-> FALSE, value |-> <<>>]

CacheSetIn(c, key, value) ==
    (key :> [value |-> value, storedAt |-> now]) @@ c

\* SpatialService.findStoresWithinRadius called from another service: the
\* list it returns and the cache it leaves
LookupWithin(c, lat, lng, radiusMm, sector, tb) ==
    LET cacheKey == generateCacheKey(lat, lng, radiusMm, sector)
        cachedResult == CacheGetIn(c, cacheKey)
    IN  IF cachedResult.hit
        THEN [result |-> cachedResult.value, cache |-> c,
              dbQueries |-> 0, cacheOps |-> <<"get">>]
        ELSE LET result == PlainQuery(lat, lng, radiusMm, sector, tb)
             IN  [result |-> result,
                  cache |-> CacheSetIn(c, cacheKey, result),
                  dbQueries |-> 1, cacheOps |-> <<"get", "set">>]

\* AnalysisService.calculateDistance (haversine); on the model's grid it is
\* the distance the storage computes
calculateDistance(lat1, lng1, lat2, lng2) == ST_Distance(<<lat2, lng2>>, lat1, lng1)

RECURSIVE SumDaysSinceOpen(_)
SumDaysSinceOpen(S) ==
    IF S = {} THEN 0
    ELSE LET i == CHOOSE x \in S : TRUE
         IN  (ReferenceDay - stores[i].openDate) + SumDaysSinceOpen(S \ {i})

\* the loop over the open stores: those with a location within the radius
\* give the sector set, those of them with an openDate the day total, the
\* valid count and the long-term count
OpenStoreStats(openStores, lat, lng, radiusMm) ==
    LET inRange == {i \in {openStores[k] : k \in 1 .. Len(openStores)} :
                      /\ stores[i].location # NullLoc
                      /\ calculateDistance(lat, lng, stores[i].location[1],
                                           stores[i].location[2]) <= radiusMm}
        valid == {i \in inRange : stores[i].openDate # NullDate}
    IN  [sectorSetSize |->
            Cardinality({IF stores[i].sector = NullSector THEN ""
                         ELSE stores[i].sector : i \in inRange}),
         totalSurvivalDays |-> SumDaysSinceOpen(valid),
         validStoreCount |-> Cardinality(valid),
         longTermCount |->
            Cardinality({i \in valid :
                ReferenceDay - stores[i].openDate >= ThreeYearsDays})]

\* survivalScore * 100 before rounding, as the fraction num / den:
\* survivalDaysScore * 0.4 + longTermScore * 0.3 + competitionScore * 0.2
\* + diversityScore * 0.1
SurvivalScoreFraction(stats, competitionLevel) ==
    LET V == IF stats.validStoreCount > 0 THEN stats.validStoreCount ELSE 1
        N == IF competitionLevel > 1 THEN competitionLevel ELSE 1
        \* min(avgSurvivalDays / 365 * 100, 100) * 365 * V
        daysScore == IF stats.validStoreCount > 0
                     THEN Min2(100 * stats.totalSurvivalDays, 36500 * V)
                     ELSE 0
        \* max(0, 100 - min(competitionLevel / 20 * 100, 100))
        competitionScore == 100 - Min2(5 * competitionLevel, 100)
    IN  [num |-> 40 * daysScore * N
                 + 3000 * stats.longTermCount * 365 * N
                 + 20 * competitionScore * 365 * V * N
                 + 1000 * stats.sectorSetSize * 365 * V,
         den |-> 365 * V * N]

\* the recommendations of calculateLocationSurvivalScore
SurvivalRecommendations(stats, competitionLevel) ==
    LET V == IF stats.validStoreCount > 0 THEN stats.validStoreCount ELSE 1
        N == IF competitionLevel > 1 THEN competitionLevel ELSE 1
        f == SurvivalScoreFraction(stats, competitionLevel)
        r == (IF f.num < 5000 * f.den THEN <<"low_survival">> ELSE <<>>)
             \o (IF competitionLevel > 15 THEN <<"fierce_competition">> ELSE <<>>)
             \o (IF competitionLevel < 3 THEN <<"few_competitors">> ELSE <<>>)
             \o (IF 10 * stats.longTermCount < 3 * V
                 THEN <<"low_long_term_ratio">> ELSE <<>>)
             \o (IF 10 * stats.sectorSetSize < 3 * N
                 THEN <<"low_diversity">> ELSE <<>>)
    IN  IF Len(r) = 0 THEN <<"fair_area">> ELSE r

\* AnalysisService.calculateLocationSurvivalScore on cache content c.
\* survivalScore and avgSurvivalDays are in hundredths; longTermStoreRatio
\* and sectorDiversity are percentages in hundredths
calculateLocationSurvivalScore(c, lat, lng, radiusMm, sector, tb, tbOpen) ==
    LET lookup == LookupWithin(c, lat, lng, radiusMm, sector, tb)
        storeList == lookup.result
    IN  IF Len(storeList) = 0
        THEN [survivalScore |-> 5000,
              scoreBreakdown |-> [avgSurvivalDays |-> 0,
                                  longTermStoreRatio |-> 0,
                                  competitionLevel |-> 0,
                                  sectorDiversity |-> 0],
              recommendations |-> <<"insufficient_data">>,
              cache |-> lookup.cache,
              dbQueries |-> lookup.dbQueries,
              cacheOps |-> lookup.cacheOps]
        ELSE LET stats == OpenStoreStats(findOpenStores(sector, tbOpen),
                                         lat, lng, radiusMm)
                 V == stats.validStoreCount
                 competitionLevel == Len(storeList)
                 f == SurvivalScoreFraction(stats, competitionLevel)
             IN  [survivalScore |-> MathRound(f.num, f.den),
                  scoreBreakdown |->
                     [avgSurvivalDays |->
                         IF V > 0 THEN MathRound(100 * stats.totalSurvivalDays, V)
                         ELSE 0,
                      longTermStoreRatio |->
                         IF V > 0 THEN MathRound(10000 * stats.longTermCount, V)
                         ELSE 0,
                      competitionLevel |-> competitionLevel,
                      sectorDiversity |->
                         MathRound(10000 * stats.sectorSetSize,
                                   competitionLevel)],
                  recommendations |->
                     SurvivalRecommendations(stats, competitionLevel),
                  cache |-> lookup.cache,
                  dbQueries |-> lookup.dbQueries + 1,
                  cacheOps |-> lookup.cacheOps]

\* a step function whose tiers end one store early
competitionScoreExclusive(sameSectorCount) ==
    IF sameSectorCount < 5 THEN 100
    ELSE IF sameSectorCount < 10 THEN 80
    ELSE IF sameSectorCount < 15 THEN 60
    ELSE IF sameSectorCount < 20 THEN 40
    ELSE 20

\* the competitionScore of checkGoodLocation, in points
competitionScoreOf(sameSectorCount) ==
    IF sameSectorCount <= 5 THEN 100
    ELSE IF sameSectorCount <= 10 THEN 80
    ELSE IF sameSectorCount <= 15 THEN 60
    ELSE IF sameSectorCount <= 20 THEN 40
    ELSE 20

\* Math.min(nearbyStores / 30 * 100, 100) as a number of thirtieths
AccessibilityThirtieths(nearbyStores) == Min2(100 * nearbyStores, 3000)

\* an overall score that weighs the competition score 0.4 and the survival
\* score 0.3
OverallScoreThirtiethsSwapped(survivalScore, competitionScore, nearbyStores, longTermStoreRatio) ==
    9 * survivalScore + 1200 * competitionScore
    + 20 * AccessibilityThirtieths(nearbyStores) + 300 * longTermStoreRatio

\* overallScore * 100 before rounding, as a number of thirtieths:
\* survivalScore * 0.4 + competitionScore * 0.3 + accessibilityScore * 0.2
\* + sectorFitScore * 0.1, where sectorFitScore is longTermStoreRatio * 100
\* (survivalScore and longTermStoreRatio come in hundredths)
OverallScoreThirtieths(survivalScore, competitionScore, nearbyStores, longTermStoreRatio) ==
    12 * survivalScore + 900 * competitionScore
    + 20 * AccessibilityThirtieths(nearbyStores) + 300 * longTermStoreRatio

\* the headline recommendation, chosen on the unrounded overallScore
Headline(overallThirtieths) ==
    IF overallThirtieths >= 80 * 3000
    THEN [type |-> "positive", message |-> "very_good"]
    ELSE IF overallThirtieths >= 60 * 3000
    THEN [type |-> "positive", message |-> "good"]
    ELSE IF overallThirtieths >= 40 * 3000
    THEN [type |-> "warning", message |-> "caution"]
    ELSE [type |-> "negative", message |-> "risky"]

\* risk factors that never report an underdeveloped area
RiskFactorsNoArea(sameSectorCount, avgSurvivalDays, nearbyStores) ==
    (IF sameSectorCount > 20 THEN <<"excess_competition">> ELSE <<>>)
    \o (IF avgSurvivalDays < 36500 THEN <<"short_lived_neighbors">> ELSE <<>>)

\* riskFactors of checkGoodLocation (avgSurvivalDays in hundredths)
RiskFactors(sameSectorCount, avgSurvivalDays, nearbyStores) ==
    (IF sameSectorCount > 20 THEN <<"excess_competition">> ELSE <<>>)
    \o (IF avgSurvivalDays < 36500 THEN <<"short_lived_neighbors">> ELSE <<>>)
    \o (IF nearbyStores < 5 THEN <<"underdeveloped_area">> ELSE <<>>)

\* opportunities of checkGoodLocation; sectorDiversity is the percentage (in
\* hundredths) that calculateLocationSurvivalScore returns, compared to 0.7
Opportunities(sameSectorCount, nearbyStores, sectorDiversity) ==
    (IF sameSectorCount <= 20 /\ sameSectorCount < 3
     THEN <<"low_competition">> ELSE <<>>)
    \o (IF nearbyStores >= 5 THEN <<"active_area">> ELSE <<>>)
    \o (IF sectorDiversity > 70 THEN <<"diverse_mix">> ELSE <<>>)

\* AnalysisService.checkGoodLocation: survival score, same-sector count,
\* plain lookup of all sectors, then the scores and the lists.  Scores are
\* in hundredths, competitionScore in points
checkGoodLocation(lat, lng, sector, radiusMm) ==
    /\ nCalls < MaxCalls
    /\ nCalls' = nCalls + 1
    /\ \E tb \in TieBreaks, tbOpen \in TieBreaks, tbAll \in TieBreaks :
       \E survivalData \in {calculateLocationSurvivalScore(
                                cache, lat, lng, radiusMm, sector, tb, tbOpen)} :
       \E allStores \in {LookupWithin(survivalData.cache, lat, lng, radiusMm,
                                     NoSector, tbAll)} :
         LET sameSectorCount == countStoresInRadius(lat, lng, radiusMm, sector)
             nearbyStores == Len(allStores.result)
             competitionScore == competitionScoreOf(sameSectorCount)
             breakdown == survivalData.scoreBreakdown
             overallScore == OverallScoreThirtieths(
                                 survivalData.survivalScore, competitionScore,
                                 nearbyStores, breakdown.longTermStoreRatio)
         IN  /\ cache' = allStores.cache
             /\ resp' = Ok("location",
                   Req(lat, lng, radiusMm, sector, 0, 0, ""),
                   [overallScore |-> MathRound(overallScore, 30),
                    survivalScore |-> survivalData.survivalScore,
                    competitionScore |-> competitionScore,
                    accessibilityScore |->
                       MathRound(AccessibilityThirtieths(nearbyStores) * 100, 30),
                    sectorFitScore |-> breakdown.longTermStoreRatio * 100,
                    detailedAnalysis |->
                       [nearbyStores |-> nearbyStores,
                        sameSectorStores |-> sameSectorCount,
                        avgSurvivalDays |-> breakdown.avgSurvivalDays,
                        sectorDiversity |-> breakdown.sectorDiversity],
                    recommendations |->
                       <<Headline(overallScore)>>
                       \o (IF sameSectorCount > 20
                           THEN <<[type |-> "warning",
                                   message |-> "fierce_competition"]>>
                           ELSE <<>>),
                    riskFactors |->
                       RiskFactors(sameSectorCount, breakdown.avgSurvivalDays,
                                   nearbyStores),
                    opportunities |->
                       Opportunities(sameSectorCount, nearbyStores,
                                     breakdown.sectorDiversity)],
                   survivalData.dbQueries + 1 + allStores.dbQueries,
                   survivalData.cacheOps \o allStores.cacheOps)
    /\ UNCHANGED <<stores, now, survival_analysis, calls, fetched>>

\* tables for the scorer: n stores of category C10 at the query point, the
\* first of them open with the given ages and the rest closed, and m open
\* stores of category I20
LocationDataset(n, m, ages) ==
    [i \in 1 .. n + m |->
        IF i > n
        THEN Store(i, "I20", ReferenceDay - 500, NullDate, <<0, 0>>)
        ELSE IF i <= Len(ages)
        THEN Store(i, "C10", ReferenceDay - ages[i], NullDate, <<0, 0>>)
        ELSE Store(i, "C10", ReferenceDay - 2000, ReferenceDay - 10, <<0, 0>>)]

SameSectorCounts == {0, 1, 2, 3, 5, 6, 10, 11, 15, 16, 20, 21, 25}

OtherSectorCounts == {2, 5}

AgeProfiles ==
    {<<1, 100, 200>>, <<1200, 400, 1095>>, <<-3, 30, 365>>}

LocationDatasets ==
    {LocationDataset(n, m, ages) :
        n \in SameSectorCounts, m \in OtherSectorCounts, ages \in AgeProfiles}

\* scorer calls <<lat, lng, sector, radius>>: at the stores with the default
\* radius of 500 m, and one degree away
LocationRequests ==
    {<<0, 0, "C10", 500000>>, <<0, 0, "I20", 500000>>,
     <<100000, 0, "C10", 500000>>}

InitLocation ==
    /\ stores \in LocationDatasets
    /\ cache = <<>>
    /\ now = 0
    /\ nCalls = MaxCalls - 1
    /\ resp = InitialResponse
    /\ survival_analysis = <<>>
    /\ calls = <<>>
    /\ fetched = <<>>

NextLocation ==
    \E q \in LocationRequests : checkGoodLocation(q[1], q[2], q[3], q[4])

SpecLocation == InitLocation /\ [][NextLocation]_vars

----------------------------------------------------------------------------
(* The plain lookup step by step: each await of findStoresWithinRadius is   *)
(* a step of its own, and the steps of several calls interleave            *)

\* a call arrives: the controller's checks, generateCacheKey, and
\* await cacheManager.get; a hit returns the cached list
LookupGet(req) ==
    /\ Len(calls) < MaxLookups
    /\ ValidatePlain(req) = "ok"
    /\ nCalls' = nCalls + 1
    /\ LET cacheKey == generateCacheKey(req.lat, req.lng, req.radius, req.sector)
           cachedResult == CacheGet(cacheKey)
       IN  IF cachedResult.hit
           THEN /\ calls' = Append(calls,
                       [req |-> req, cacheKey |-> cacheKey, pc |-> "done",
                        cachedResult |-> cachedResult,
                        result |-> cachedResult.value,
                        dbQueries |-> 0, cacheOps |-> <<"get">>])
                /\ resp' = Ok("list", req, cachedResult.value, 0, <<"get">>)
           ELSE /\ calls' = Append(calls,
                       [req |-> req, cacheKey |-> cacheKey, pc |-> "query",
                        cachedResult |-> cachedResult,
                        result |-> <<>>,
                        dbQueries |-> 0, cacheOps |-> <<"get">>])
                /\ UNCHANGED resp
    /\ UNCHANGED <<stores, cache, now, survival_analysis, fetched>>

\* a query step that, when the storage fails, caches an empty list before
\* it throws
LookupQueryCachesFailure(p) ==
    /\ p \in 1 .. Len(calls)
    /\ calls[p].pc = "query"
    /\ \/ /\ \E tb \in TieBreaks :
               calls' = [calls EXCEPT
                           ![p].pc = "set",
                           ![p].result = PlainQuery(calls[p].req.lat,
                                             calls[p].req.lng,
                                             calls[p].req.radius,
                                             calls[p].req.sector, tb),
                           ![p].dbQueries = @ + 1]
          /\ UNCHANGED <<resp, cache>>
       \/ /\ calls' = [calls EXCEPT ![p].pc = "failed", ![p].dbQueries = @ + 1]
          /\ cache' = CacheSet(calls[p].cacheKey, <<>>)
          /\ resp' = Failed("list", calls[p].req, "storage",
                            calls[p].dbQueries + 1, calls[p].cacheOps)
    /\ UNCHANGED <<stores, now, nCalls, survival_analysis, fetched>>

\* await dataSource.query inside the try block: the rows mapped to items,
\* or the storage error, logged and thrown again to the caller
LookupQuery(p) ==
    /\ p \in 1 .. Len(calls)
    /\ calls[p].pc = "query"
    /\ \/ /\ \E tb \in TieBreaks :
               calls' = [calls EXCEPT
                           ![p].pc = "set",
                           ![p].result = PlainQuery(calls[p].req.lat,
                                             calls[p].req.lng,
                                             calls[p].req.radius,
                                             calls[p].req.sector, tb),
                           ![p].dbQueries = @ + 1]
          /\ UNCHANGED resp
       \/ /\ calls' = [calls EXCEPT ![p].pc = "failed", ![p].dbQueries = @ + 1]
          /\ resp' = Failed("list", calls[p].req, "storage",
                            calls[p].dbQueries + 1, calls[p].cacheOps)
    /\ UNCHANGED <<stores, cache, now, nCalls, survival_analysis, fetched>>

\* await cacheManager.set(cacheKey, result, 300000), then return result
LookupSet(p) ==
    /\ p \in 1 .. Len(calls)
    /\ calls[p].pc = "set"
    /\ cache' = CacheSet(calls[p].cacheKey, calls[p].result)
    /\ calls' = [calls EXCEPT ![p].pc = "done",
                              ![p].cacheOps = Append(@, "set")]
    /\ resp' = Ok("list", calls[p].req, calls[p].result,
                  calls[p].dbQueries, Append(calls[p].cacheOps, "set"))
    /\ UNCHANGED <<stores, now, nCalls, survival_analysis, fetched>>

\* lookups of one cache key with different results, and one of another key
ConcurrentQueries ==
    {<<1, 0, 3337, "C10">>, <<4, 0, 5000, "C10">>, <<4, 0, 5000, NoSector>>}

NextConcurrent ==
    \/ \E req \in {PlainReq(q) : q \in ConcurrentQueries} : LookupGet(req)
    \/ \E p \in 1 .. MaxLookups : LookupQuery(p)
    \/ \E p \in 1 .. MaxLookups : LookupSet(p)

\* tables in which the two lookups of one key have different results
InitConcurrent ==
    /\ stores \in {d \in SmallDatasets : d[2].sector = "C10"}
    /\ cache = <<>>
    /\ now = 0
    /\ nCalls = 0
    /\ resp = InitialResponse
    /\ survival_analysis = <<>>
    /\ calls = <<>>
    /\ fetched = <<>>

SpecConcurrent == InitConcurrent /\ [][NextConcurrent]_vars

----------------------------------------------------------------------------
(* AnalysisController: GET /analysis/survival behind the cache interceptor *)

\* @CacheKey('analysis-survival'): the interceptor uses this key for every
\* request of the handler, whatever its query string
SurvivalCacheKey == <<"analysis-survival">>

\* @CacheTTL(3600), handed to cacheManager.set, which takes milliseconds
SurvivalCacheTtlMs == 3600

\* AnalysisController.getSurvivalDuration with @UseInterceptors(
\* CacheInterceptor): a cached response is returned without running the
\* handler; otherwise calculateSurvival(dto.sector) runs and its response is
\* cached
getSurvivalDuration(sector) ==
    /\ nCalls < MaxCalls
    /\ nCalls' = nCalls + 1
    /\ IF /\ SurvivalCacheKey \in DOMAIN cache
          /\ now - cache[SurvivalCacheKey].storedAt <= SurvivalCacheTtlMs
       THEN /\ resp' = Ok("survival_endpoint", Req(0, 0, 0, sector, 0, 0, ""),
                          cache[SurvivalCacheKey].value, 0, <<"get">>)
            /\ UNCHANGED cache
       ELSE \E tb \in TieBreaks :
              LET result == SurvivalResults(findClosedStores(sector, tb), TRUE)
              IN  /\ cache' = CacheSet(SurvivalCacheKey, result)
                  /\ resp' = Ok("survival_endpoint",
                                Req(0, 0, 0, sector, 0, 0, ""),
                                result, 1, <<"get", "set">>)
    /\ UNCHANGED <<stores, now, survival_analysis, calls, fetched>>

NextSurvivalEndpoint ==
    \/ \E sector \in SurvivalSectors : getSurvivalDuration(sector)
    \/ Tick

SpecSurvivalEndpoint == InitSurvival /\ [][NextSurvivalEndpoint]_vars

----------------------------------------------------------------------------
(* A client that fetches the pages of one paged query one after another *)

\* the fixed queries of the page sweep: page size and sort order
SweepQueries ==
    {Req(4, 0, 5000, NoSector, 0, limit, sortBy) :
        limit \in {1, 2}, sortBy \in SortOptions}

\* GET /spatial/stores-within-radius-enhanced for the next page of q: page
\* 1 first, then the pages up to the totalPages of the first response.
\* Every request runs its own count and data queries
FetchNextPage(q) ==
    /\ \/ fetched = <<>>
       \/ /\ fetched # <<>>
          /\ [fetched[1].req EXCEPT !.page = 0] = q
          /\ fetched[Len(fetched)].status = "ok"
          /\ Len(fetched) < fetched[1].body.totalPages
    /\ nCalls' = nCalls + 1
    /\ LET req == [q EXCEPT !.page = Len(fetched) + 1]
       IN  IF ValidateEnhanced(req) # "ok"
           THEN /\ resp' = BadRequest("paged", req, ValidateEnhanced(req))
                /\ UNCHANGED cache
           ELSE findStoresWithinRadiusEnhanced(
                    req, req.page,
                    IF req.limit # 0 THEN req.limit ELSE DefaultLimit,
                    IF req.sortBy # "" THEN req.sortBy ELSE DefaultSort)
    /\ fetched' = Append(fetched, resp')
    /\ UNCHANGED <<stores, now, survival_analysis, calls>>

NextSweep == \E q \in SweepQueries : FetchNextPage(q)

SpecSweep == Init /\ [][NextSweep]_vars

----------------------------------------------------------------------------
(* The batch survival calculator and the survival_analysis table *)

\* a table without a primary key
PrimaryKeyConflictNever(table, sector) == FALSE

\* sector VARCHAR(10) PRIMARY KEY: a row with this sector is in the table
PrimaryKeyConflict(table, sector) ==
    \E k \in 1 .. Len(table) : table[k].sector = sector

\* upsert by category: insert the row when its sector is absent, otherwise
\* overwrite the values and updated_at of the row that is there
UpsertRow(table, row) ==
    IF PrimaryKeyConflict(table, row.sector)
    THEN [k \in 1 .. Len(table) |->
            IF table[k].sector = row.sector
            THEN [table[k] EXCEPT !.avg_duration_days = row.avg_duration_days,
                                  !.sample_size = row.sample_size,
                                  !.updated_at = row.updated_at]
            ELSE table[k]]
    ELSE Append(table, row)

RECURSIVE UpsertAll(_, _, _)
UpsertAll(table, results, k) ==
    IF k > Len(results) THEN table
    ELSE UpsertAll(
             UpsertRow(table,
                 [sector |-> results[k].sector,
                  avg_duration_days |-> results[k].avgDurationDays,
                  sample_size |-> results[k].sampleSize,
                  calculated_at |-> now,
                  updated_at |-> now]),
             results, k + 1)

\* the records the batch reads: closeDate, openDate and sector all NOT NULL
BatchRows(tb) ==
    LET Match(i) == /\ stores[i].closeDate # NullDate
                    /\ stores[i].openDate # NullDate
                    /\ stores[i].sector # NullSector
        key == [i \in StoreIds |-> -stores[i].closeDate]
    IN  OrderedRows(SelectSeq(IdSeq, Match), key, tb)

\* one run of the batch: the closed-store average per category, negative
\* durations removed, then one upsert per category
runSurvivalBatch ==
    /\ nCalls < MaxCalls
    /\ nCalls' = nCalls + 1
    /\ \E tb \in TieBreaks :
         LET results == SurvivalResults(BatchRows(tb), TRUE)
         IN  /\ survival_analysis' = UpsertAll(survival_analysis, results, 1)
             /\ resp' = Ok("batch", Req(0, 0, 0, NoSector, 0, 0, ""),
                           results, 1, <<>>)
    /\ UNCHANGED <<stores, cache, now, calls, fetched>>

\* the scheduler runs the batch from time to time
NextBatch == runSurvivalBatch \/ Tick

SpecBatch == InitSurvival /\ [][NextBatch]_vars

----------------------------------------------------------------------------
(* Properties of the radius query engine and its cache *)

IsListResponse == resp.op = "list" /\ resp.status = "ok"

IsPagedResponse == resp.op = "paged" /\ resp.status = "ok"

\* the records a radius request selects, stated from the data model: a
\* location is present, the geodesic distance is within the radius and the
\* category, when one is given, is the record's category
Selected(req) ==
    {i \in StoreIds :
        /\ stores[i].location # NullLoc
        /\ ST_Distance(stores[i].location, req.lat, req.lng) <= req.radius
        /\ (req.sector \notin {NoSector, ""} => stores[i].sector = req.sector)}

\* the lists the storage query of a plain lookup can return for a request
UncachedResults(req) ==
    {PlainQuery(req.lat, req.lng, req.radius, req.sector, tb) : tb \in TieBreaks}

\* C1: every plain lookup returns a list that the same call returns with the
\* cache disabled (same lat, lng, radius and category), never the result of
\* an earlier call with different inputs
C1_CacheIsPureAccelerator ==
    IsListResponse => resp.body \in UncachedResults(resp.req)

\* C2: when fewer than 100 stores match, the count of a category within a
\* radius equals the length of the list the plain lookup returns for the
\* same lat, lng, radius and category, after any prior sequence of calls
C2_CountEqualsListLength ==
    (/\ IsListResponse
     /\ Truthy(resp.req.sector)
     /\ Cardinality(Selected(resp.req)) < ListLimit)
    => Len(resp.body) = countStoresInRadius(resp.req.lat, resp.req.lng,
                                            resp.req.radius, resp.req.sector)


\* the documented ranges: lat in [-90, 90], lng in [-180, 180], radius in
\* [1, 10000] metres, bounds inclusive
InDocumentedRanges(req) ==
    /\ -9000000 <= req.lat /\ req.lat <= 9000000
    /\ -18000000 <= req.lng /\ req.lng <= 18000000
    /\ 1000 <= req.radius /\ req.radius <= 10000000

CategoryAbsent(req) == req.sector = NoSector

CategoryBlank(req) == req.sector \in {"", " "}

IsRadiusResponse == resp.op \in {"list", "paged", "count"}

\* C3 as stated: each of the three entry points accepts a request exactly
\* when lat, lng and radius are in range, and the count additionally rejects
\* an absent, empty or blank category
C3_AcceptsExactlyInRange ==
    IsRadiusResponse =>
        (resp.status = "ok" <=>
            /\ InDocumentedRanges(resp.req)
            /\ (resp.op = "count" =>
                   ~CategoryAbsent(resp.req) /\ ~CategoryBlank(resp.req)))

\* C3 amended: as C3, and the plain list additionally rejects a category
\* that is given but empty or blank; a rejection is a caller-input error
C3_AcceptsExactlyInRangeAndCategory ==
    IsRadiusResponse =>
        /\ resp.status \in {"ok", "bad_request"}
        /\ (resp.status = "ok" <=>
              /\ InDocumentedRanges(resp.req)
              /\ (resp.op = "count" =>
                     ~CategoryAbsent(resp.req) /\ ~CategoryBlank(resp.req))
              /\ (resp.op = "list" => ~CategoryBlank(resp.req)))

\* C3 witness: the plain list has rejected a blank category with lat, lng
\* and radius in range
C3_Witness ==
    /\ resp.op = "list"
    /\ resp.status = "bad_request"
    /\ resp.req.sector = " "
    /\ InDocumentedRanges(resp.req)

\* C4: a rejected radius request issues no storage query, makes no cache
\* get or set and leaves the cache contents unchanged
C4_RejectionBeforeStorageAndCache ==
    [][(nCalls' # nCalls /\ resp'.status = "bad_request")
        => (/\ cache' = cache
            /\ resp'.dbQueries = 0
            /\ resp'.cacheOps = <<>>)]_vars

\* C4 witness: a request has been rejected while the cache holds an entry
C4_Witness ==
    /\ IsRadiusResponse
    /\ resp.status = "bad_request"
    /\ DOMAIN cache # {}

\* C5: totalCount is the size of the full matching set, totalPages is
\* ceil(totalCount / pageSize), hasPrev iff page > 1, hasNext iff
\* page < totalPages, and the page holds
\* min(pageSize, max(0, totalCount - (page - 1) * pageSize)) items
C5_PagingMetadata ==
    IsPagedResponse =>
        LET b == resp.body
            total == Cardinality(Selected(resp.req))
            pages == CHOOSE n \in 0 .. total :
                        /\ n * b.limit >= total
                        /\ (n > 0 => (n - 1) * b.limit < total)
            rest == total - (b.page - 1) * b.limit
        IN  /\ b.page >= 1 /\ b.limit >= 1
            /\ b.totalCount = total
            /\ b.totalPages = pages
            /\ b.hasPrev = (b.page > 1)
            /\ b.hasNext = (b.page < pages)
            /\ Len(b.stores) =
                 (IF b.limit < (IF rest > 0 THEN rest ELSE 0)
                  THEN b.limit ELSE (IF rest > 0 THEN rest ELSE 0))

\* C5 witness: a middle page of several has been returned
C5_Witness ==
    /\ IsPagedResponse
    /\ resp.body.hasNext /\ resp.body.hasPrev
    /\ resp.body.totalCount = 3
    /\ Len(resp.body.stores) = 1

\* C6 as stated: every item of the paged lookup carries a distance (here in
\* centimetres) that is at most the radius (in millimetres), has a location
\* and is of the requested category
C6_DistanceWithinRadius ==
    IsPagedResponse =>
        \A k \in 1 .. Len(resp.body.stores) :
            LET item == resp.body.stores[k]
            IN  /\ item.distance * 10 <= resp.req.radius
                /\ item.location # NullLoc
                /\ (resp.req.sector \notin {NoSector, ""}
                      => item.sector = resp.req.sector)

\* C6 amended: the carried distance is the geodesic distance rounded to 2
\* decimals, so it exceeds the radius by at most 0.005 m (the geodesic
\* distance itself is at most the radius); location and category as in C6
C6_RoundedDistanceWithinRadius ==
    IsPagedResponse =>
        \A k \in 1 .. Len(resp.body.stores) :
            LET item == resp.body.stores[k]
                d == ST_Distance(stores[item.id].location,
                                 resp.req.lat, resp.req.lng)
            IN  /\ d <= resp.req.radius
                /\ item.distance * 10 - 5 <= d
                /\ d < item.distance * 10 + 5
                /\ item.distance * 10 <= resp.req.radius + 5
                /\ item.location # NullLoc
                /\ (resp.req.sector \notin {NoSector, ""}
                      => item.sector = resp.req.sector)

\* C6 witness: an item at 3.336 m has been returned for a radius of 3.337 m
C6_Witness ==
    /\ IsPagedResponse
    /\ resp.req.radius = 3337
    /\ \E k \in 1 .. Len(resp.body.stores) : resp.body.stores[k].distance = 334

\* C7: on a cache miss the plain lookup returns at most 100 records, all
\* located within the radius and of the requested category, ordered by
\* openDate descending, and no matching record left out was opened more
\* recently than a returned one
C7_PlainLookupResult ==
    (IsListResponse /\ resp.dbQueries = 1) =>
        LET ids == {resp.body[k].id : k \in 1 .. Len(resp.body)}
        IN  /\ Len(resp.body) <= 100
            /\ ids \subseteq Selected(resp.req)
            /\ \A k \in 1 .. Len(resp.body) :
                  /\ resp.body[k].location # NullLoc
                  /\ (resp.req.sector \notin {NoSector, ""}
                        => resp.body[k].sector = resp.req.sector)
            /\ \A k \in 1 .. Len(resp.body) - 1 :
                  stores[resp.body[k].id].openDate
                      >= stores[resp.body[k + 1].id].openDate
            /\ \A i \in Selected(resp.req) \ ids : \A j \in ids :
                  stores[i].openDate <= stores[j].openDate

\* C7 witness: a miss has returned 100 records of more than 100 matching
C7_Witness ==
    /\ IsListResponse
    /\ resp.dbQueries = 1
    /\ Len(resp.body) = 100
    /\ Cardinality(Selected(resp.req)) > 100

----------------------------------------------------------------------------
(* Properties of the survival calculator *)

IsSurvivalResponse == resp.op = "survival" /\ resp.status = "ok"

IsDistributionResponse == resp.op = "distribution" /\ resp.status = "ok"

\* the closed records of a category that have both dates and did not close
\* before they opened, among the records a category filter lets through
NonNegativeClosed(category, filter) ==
    {i \in StoreIds :
        /\ stores[i].sector = category
        /\ (filter # NoSector => stores[i].sector = filter)
        /\ stores[i].closeDate # NullDate
        /\ stores[i].openDate # NullDate
        /\ stores[i].closeDate >= stores[i].openDate}

RECURSIVE TotalDuration(_)
TotalDuration(S) ==
    IF S = {} THEN 0
    ELSE LET i == CHOOSE x \in S : TRUE
         IN  (stores[i].closeDate - stores[i].openDate) + TotalDuration(S \ {i})

\* avg (in hundredths) is the mean of the durations of S rounded to 2
\* decimals: it lies within half a hundredth of the exact mean
IsRoundedMean(avg, S) ==
    2 * Abs(avg * Cardinality(S) - 100 * TotalDuration(S)) <= Cardinality(S)

Categories == {"C10", "I20", "X99"}

\* C8: calculateSurvival returns, for each category with at least one closed
\* record of non-negative duration, exactly one group whose sampleSize is
\* the number of such records and whose avgDurationDays is their mean
\* duration rounded to 2 decimals; with a category filter only that
\* category's group is returned
C8_SurvivalGroups ==
    IsSurvivalResponse =>
        LET groups == resp.body
            filter == resp.req.sector
        IN  /\ \A c \in Categories :
                 LET S == NonNegativeClosed(c, filter)
                     G == {g \in 1 .. Len(groups) : groups[g].sector = c}
                 IN  S # {} =>
                       /\ Cardinality(G) = 1
                       /\ \A g \in G :
                            /\ groups[g].sampleSize = Cardinality(S)
                            /\ IsRoundedMean(groups[g].avgDurationDays, S)
            /\ (filter # NoSector =>
                  \A g \in 1 .. Len(groups) : groups[g].sector = filter)

\* C8 witness: with the filter "C10" over closed records of 10, 20 and 30
\* days (and a closed record of another category) the single group has
\* avgDurationDays 20.00 and sampleSize 3
C8_Witness ==
    /\ IsSurvivalResponse
    /\ resp.req.sector = "C10"
    /\ stores[1].closeDate - stores[1].openDate = 10
    /\ stores[2].closeDate = 1020
    /\ stores[3].sector = "C10" /\ stores[3].closeDate = 1030
    /\ stores[4].sector = "I20" /\ stores[4].openDate # NullDate
    /\ resp.body = <<[sector |-> "C10", avgDurationDays |-> 2000,
                      sampleSize |-> 3]>>

\* C9: a closed record whose closeDate is earlier than its openDate is never
\* counted in a group's sampleSize and never contributes to an
\* avgDurationDays that calculateSurvival returns
C9_NegativeDurationDropped ==
    (resp.op \in {"survival", "survival_unguarded"} /\ resp.status = "ok") =>
        \A g \in 1 .. Len(resp.body) :
            LET S == NonNegativeClosed(resp.body[g].sector, resp.req.sector)
            IN  /\ resp.body[g].sampleSize = Cardinality(S)
                /\ IsRoundedMean(resp.body[g].avgDurationDays, S)

\* the stage table as documented: first and last age of each stage, the
\* last stage being open-ended
DocumentedStages ==
    <<<<0, 365>>, <<366, 1095>>, <<1096, 1825>>, <<1826, 3650>>, <<3651, -1>>>>

InDocumentedStage(age, k) ==
    /\ age >= DocumentedStages[k][1]
    /\ (DocumentedStages[k][2] = -1 \/ age <= DocumentedStages[k][2])

\* the documented stage of each boundary age
BoundaryStage ==
    (365 :> 1) @@ (366 :> 2) @@ (400 :> 2) @@ (1095 :> 2) @@ (1096 :> 3)
    @@ (1825 :> 3) @@ (1826 :> 4) @@ (3650 :> 4) @@ (3651 :> 5)

\* the open records of a category with an openDate not after today, among
\* the records a category filter lets through
OpenWithAge(category, filter) ==
    {i \in StoreIds :
        /\ stores[i].sector = category
        /\ (filter # NoSector => stores[i].sector = filter)
        /\ stores[i].closeDate = NullDate
        /\ stores[i].openDate # NullDate
        /\ ReferenceDay - stores[i].openDate >= 0}

\* C10: calculateSurvivalDistribution assigns every open record of age >= 0
\* to exactly one stage of the table 0-365, 366-1095, 1096-1825, 1826-3650,
\* 3651+; ages 365, 366, 400, 1095, 1096, 1825, 1826, 3650 and 3651 fall in
\* stages 1, 2, 2, 2, 3, 3, 4, 4 and 5
C10_StageAssignment ==
    IsDistributionResponse =>
        \A g \in 1 .. Len(resp.body) :
            LET group == resp.body[g]
                S == OpenWithAge(group.sector, resp.req.sector)
                Age(i) == ReferenceDay - stores[i].openDate
            IN  /\ Len(group.stages) = 5
                /\ \A k \in 1 .. 5 :
                     group.stages[k].count =
                        Cardinality({i \in S : InDocumentedStage(Age(i), k)})
                /\ \A i \in S :
                     /\ Cardinality({k \in 1 .. 5 :
                                        InDocumentedStage(Age(i), k)}) = 1
                     /\ (Age(i) \in DOMAIN BoundaryStage =>
                           group.stages[BoundaryStage[Age(i)]].count >= 1)
                     /\ (Age(i) \in DOMAIN BoundaryStage /\ Cardinality(S) = 1 =>
                           \A k \in 1 .. 5 :
                              group.stages[k].count =
                                 (IF k = BoundaryStage[Age(i)] THEN 1 ELSE 0))

\* C10 witness: the single open record of its category is 400 days old and
\* is counted in the second stage
C10_Witness ==
    /\ IsDistributionResponse
    /\ ReferenceDay - stores[1].openDate = 400
    /\ stores[2].sector # "C10"
    /\ \E g \in 1 .. Len(resp.body) :
          /\ resp.body[g].sector = "C10"
          /\ resp.body[g].totalCount = 1
          /\ resp.body[g].stages[2].count = 1

\* C11: for every category in the output of calculateSurvivalDistribution
\* all five stages are reported, the five counts sum to totalCount,
\* totalCount is the number of open records of the category with a
\* non-negative age, and each percentage is count / totalCount * 100
\* rounded to 2 decimals (0 for a stage without records)
C11_DistributionTotals ==
    IsDistributionResponse =>
        \A g \in 1 .. Len(resp.body) :
            LET group == resp.body[g]
                S == OpenWithAge(group.sector, resp.req.sector)
            IN  /\ Len(group.stages) = 5
                /\ \A k \in 1 .. 5 : group.stages[k].range = Stages[k].name
                /\ group.stages[1].count + group.stages[2].count
                     + group.stages[3].count + group.stages[4].count
                     + group.stages[5].count = group.totalCount
                /\ group.totalCount = Cardinality(S)
                /\ group.totalCount > 0
                /\ \A k \in 1 .. 5 :
                     /\ group.stages[k].count >= 0
                     /\ (group.stages[k].count = 0
                           => group.stages[k].percentage = 0)
                     /\ 2 * Abs(group.stages[k].percentage * group.totalCount
                                - 10000 * group.stages[k].count)
                           <= group.totalCount

\* C11 witness: a category with three open records, two of them in the
\* first stage (66.67 %) and one in the second (33.33 %)
C11_Witness ==
    /\ IsDistributionResponse
    /\ ReferenceDay - stores[1].openDate = 400
    /\ stores[2].sector = "C10" /\ ReferenceDay - stores[2].openDate = 365
    /\ stores[3].closeDate = NullDate
    /\ \E g \in 1 .. Len(resp.body) :
          /\ resp.body[g].sector = "C10"
          /\ resp.body[g].totalCount = 3
          /\ resp.body[g].stages[1].percentage = 6667
          /\ resp.body[g].stages[2].percentage = 3333
          /\ resp.body[g].stages[3].percentage = 0

----------------------------------------------------------------------------
(* Properties of the location scorer *)

IsLocationResponse == resp.op = "location" /\ resp.status = "ok"

\* the stores of any category within the radius of a request
SelectedOfAnySector(req) ==
    {i \in StoreIds :
        /\ stores[i].location # NullLoc
        /\ ST_Distance(stores[i].location, req.lat, req.lng) <= req.radius}

\* the documented tiers of the competition score
DocumentedCompetitionScore(n) ==
    CASE n <= 5 -> 100
      [] n >= 6 /\ n <= 10 -> 80
      [] n >= 11 /\ n <= 15 -> 60
      [] n >= 16 /\ n <= 20 -> 40
      [] OTHER -> 20

CountRange == 0 .. 30

\* C12: the competitionScore of checkGoodLocation is the step function of
\* the same-category count n within the radius: 100 for n <= 5, 80 for
\* 6..10, 60 for 11..15, 40 for 16..20, 20 for n > 20; it is non-increasing
\* in n
C12_CompetitionScoreSteps ==
    /\ IsLocationResponse =>
          LET n == Cardinality(Selected(resp.req))
          IN  /\ resp.body.detailedAnalysis.sameSectorStores = n
              /\ resp.body.competitionScore = DocumentedCompetitionScore(n)
    /\ \A a \in CountRange : \A b \in CountRange :
          a <= b => competitionScoreOf(a) >= competitionScoreOf(b)

\* C12 witness: six stores of the category within the radius score 80
C12_Witness ==
    /\ IsLocationResponse
    /\ Cardinality(Selected(resp.req)) = 6
    /\ resp.body.competitionScore = 80

\* the open stores of the request's category within the radius that have
\* an openDate, and the long-term ones among them
OpenNearby(req) ==
    {i \in Selected(req) :
        stores[i].closeDate = NullDate /\ stores[i].openDate # NullDate}

LongTermNearby(req) ==
    {i \in OpenNearby(req) : ReferenceDay - stores[i].openDate >= 1095}

\* C13: survivalScore, competitionScore, accessibilityScore, sectorFitScore
\* and overallScore all lie between 0 and 100, and sectorFitScore is the
\* long-term-store ratio on a 0-100 scale
C13_ScoresInRange ==
    IsLocationResponse =>
        LET b == resp.body
            V == Cardinality(OpenNearby(resp.req))
            L == Cardinality(LongTermNearby(resp.req))
        IN  /\ b.survivalScore >= 0 /\ b.survivalScore <= 10000
            /\ b.competitionScore >= 0 /\ b.competitionScore <= 100
            /\ b.accessibilityScore >= 0 /\ b.accessibilityScore <= 10000
            /\ b.sectorFitScore >= 0 /\ b.sectorFitScore <= 10000
            /\ b.overallScore >= 0 /\ b.overallScore <= 10000
            /\ (V > 0 => 2 * Abs(b.sectorFitScore * V - 10000 * L) <= V)

\* C14: overallScore is survivalScore * 0.4 + competitionScore * 0.3
\* + accessibilityScore * 0.2 + sectorFitScore * 0.1 of the sub-scores in
\* the same response, rounded to 2 decimals
C14_OverallScoreFormula ==
    IsLocationResponse =>
        LET b == resp.body
            tenths == 4 * b.survivalScore + 300 * b.competitionScore
                      + 2 * b.accessibilityScore + b.sectorFitScore
        IN  2 * Abs(10 * b.overallScore - tenths) <= 10

\* C14 witness: the sub-scores 26.66, 80, 26.67 and 0 give 40.00
C14_Witness ==
    /\ IsLocationResponse
    /\ resp.body.survivalScore = 2666
    /\ resp.body.competitionScore = 80
    /\ resp.body.accessibilityScore = 2667
    /\ resp.body.sectorFitScore = 0
    /\ resp.body.overallScore = 4000

HeadlineMessages == {"very_good", "good", "caution", "risky"}

\* C15: exactly one headline recommendation is emitted and it is the bucket
\* of the overallScore of the same response: very good from 80, good from
\* 60, caution from 40, risky below
C15_HeadlineBucket ==
    IsLocationResponse =>
        LET b == resp.body
            headlines == {k \in 1 .. Len(b.recommendations) :
                            b.recommendations[k].message \in HeadlineMessages}
        IN  /\ Cardinality(headlines) = 1
            /\ \A k \in headlines :
                  b.recommendations[k].message =
                     (IF b.overallScore >= 8000 THEN "very_good"
                      ELSE IF b.overallScore >= 6000 THEN "good"
                      ELSE IF b.overallScore >= 4000 THEN "caution"
                      ELSE "risky")

InSeq(x, q) == \E k \in 1 .. Len(q) : q[k] = x

\* C16: excess competition is a risk factor exactly when the same-category
\* count within the radius is > 20 (25 stores: count 25, competitionScore
\* 20, risk factor present), short-lived neighbors exactly when the nearby
\* average survival is < 365 days, underdeveloped area exactly when the
\* nearby store count is < 5
C16_RiskFactors ==
    IsLocationResponse =>
        LET b == resp.body
            n == Cardinality(Selected(resp.req))
        IN  /\ b.detailedAnalysis.sameSectorStores = n
            /\ InSeq("excess_competition", b.riskFactors) <=> n > 20
            /\ (n = 25 => b.competitionScore = 20)
            /\ InSeq("short_lived_neighbors", b.riskFactors)
                  <=> b.detailedAnalysis.avgSurvivalDays < 36500
            /\ InSeq("underdeveloped_area", b.riskFactors)
                  <=> b.detailedAnalysis.nearbyStores < 5
            /\ Len(b.riskFactors) =
                  Cardinality({b.riskFactors[k] : k \in 1 .. Len(b.riskFactors)})

\* C16 witness: 25 stores of the category within the radius
C16_Witness ==
    /\ IsLocationResponse
    /\ Cardinality(Selected(resp.req)) = 25
    /\ resp.body.detailedAnalysis.sameSectorStores = 25
    /\ resp.body.competitionScore = 20
    /\ InSeq("excess_competition", resp.body.riskFactors)
    /\ ~InSeq("underdeveloped_area", resp.body.riskFactors)

\* the categories of the open stores of the request's category filter
\* within the radius
NearbyCategories(req) ==
    {stores[i].sector : i \in {j \in Selected(req) :
                                  stores[j].closeDate = NullDate}}

\* C17: low competition is an opportunity exactly when the same-category
\* count is < 3, active commercial area exactly when the nearby store
\* count is >= 5, diverse mix exactly when the diversity fraction
\* (distinct categories / total nearby stores) is > 0.7
C17_Opportunities ==
    IsLocationResponse =>
        LET b == resp.body
            n == Cardinality(Selected(resp.req))
        IN  /\ InSeq("low_competition", b.opportunities) <=> n < 3
            /\ InSeq("active_area", b.opportunities)
                  <=> b.detailedAnalysis.nearbyStores >= 5
            /\ InSeq("diverse_mix", b.opportunities)
                  <=> (n > 0 /\ 10 * Cardinality(NearbyCategories(resp.req))
                                  > 7 * n)

\* C18: with no store within the radius checkGoodLocation returns
\* survivalScore 50, zero survival breakdown fields and a recommendation
\* that says the data is insufficient
C18_ZeroStoreFallback ==
    (IsLocationResponse /\ SelectedOfAnySector(resp.req) = {}) =>
        LET b == resp.body
        IN  /\ b.survivalScore = 5000
            /\ b.detailedAnalysis.avgSurvivalDays = 0
            /\ b.detailedAnalysis.sectorDiversity = 0
            /\ b.sectorFitScore = 0
            /\ \E k \in 1 .. Len(b.recommendations) :
                  b.recommendations[k].message = "insufficient_data"

----------------------------------------------------------------------------
(* Properties of the cache entries *)

\* a plain lookup has been accepted in this step
ListStep == nCalls' = nCalls + 1 /\ resp'.op = "list" /\ resp'.status = "ok"

NearestMultiple(n, d) ==
    CHOOSE k \in -200 .. 200 : 2 * k * d <= 2 * n + d /\ 2 * n + d < 2 * (k + 1) * d

\* the quantized form of a request: lat and lng to 4 decimals, radius to
\* the nearest 100 m (in metres), category or the all-categories sentinel
Quantized(req) ==
    <<NearestMultiple(req.lat, 10), NearestMultiple(req.lng, 10),
      100 * NearestMultiple(req.radius, 100000),
      IF req.sector \in {NoSector, ""} THEN "all" ELSE req.sector>>

\* C20: the cache key of a plain lookup is the quantized form of the
\* request and nothing else: the lookup reads and writes the entry of that
\* key only, and a lookup made within the TTL of an entry of that key,
\* written by whichever lookup with the same quantized values, is answered
\* from that entry
C20_KeyIsQuantizedRequest ==
    [][ListStep =>
          LET Q == Quantized(resp'.req)
          IN  /\ Q \in DOMAIN cache'
              /\ DOMAIN cache' = DOMAIN cache \cup {Q}
              /\ \A K \in DOMAIN cache : K # Q => cache'[K] = cache[K]
              /\ ((Q \in DOMAIN cache /\ now - cache[Q].storedAt < 300000) =>
                    /\ resp'.dbQueries = 0
                    /\ resp'.body = cache[Q].value
                    /\ cache' = cache)]_vars

\* C20 witness: a lookup has been answered from an entry that a lookup
\* with other inputs and the same quantized values wrote
C20_Witness ==
    /\ IsListResponse
    /\ resp.dbQueries = 0
    /\ resp.body \notin UncachedResults(resp.req)
    /\ Quantized(resp.req) \in DOMAIN cache
    /\ cache[Quantized(resp.req)].value = resp.body

----------------------------------------------------------------------------
(* Properties: empty results, missing categories, failures, concurrency *)

\* the closed / open records a category filter selects, from the data model
ClosedMatching(filter) ==
    {i \in StoreIds :
        /\ stores[i].closeDate # NullDate
        /\ (filter \notin {NoSector, ""} => stores[i].sector = filter)}

OpenMatching(filter) ==
    {i \in StoreIds :
        /\ stores[i].closeDate = NullDate
        /\ (filter \notin {NoSector, ""} => stores[i].sector = filter)}

\* C21: a valid request that no record matches is answered without an error
\* and with nothing in it: calculateSurvival and the distribution return an
\* empty list, the plain and the paged lookup an empty list (and a total of
\* 0), the count returns 0
C21_EmptyResultOnNoMatch ==
    resp.status = "ok" =>
        /\ (resp.op = "survival" /\ ClosedMatching(resp.req.sector) = {})
              => resp.body = <<>>
        /\ (resp.op = "distribution" /\ OpenMatching(resp.req.sector) = {})
              => resp.body = <<>>
        /\ (resp.op = "list" /\ Selected(resp.req) = {})
              => resp.body = <<>>
        /\ (resp.op = "paged" /\ Selected(resp.req) = {})
              => resp.body.stores = <<>> /\ resp.body.totalCount = 0
        /\ (resp.op = "count" /\ Selected(resp.req) = {})
              => resp.body.totalCount = 0

\* the part of C21 that is not about the plain lookup
C21_EmptyResultOtherThanList ==
    resp.op # "list" => C21_EmptyResultOnNoMatch

\* a request without a match has been answered by each operation
C21_SeenSurvival ==
    resp.op = "survival" /\ ClosedMatching(resp.req.sector) = {}

C21_SeenDistribution ==
    resp.op = "distribution" /\ OpenMatching(resp.req.sector) = {}

C21_SeenPaged ==
    resp.op = "paged" /\ resp.status = "ok" /\ Selected(resp.req) = {}

C21_SeenCount ==
    resp.op = "count" /\ resp.status = "ok" /\ Selected(resp.req) = {}

\* a record has a category when its sector is neither NULL nor empty
HasCategory(i) == stores[i].sector \notin {NullSector, NoSector, ""}

\* the closed records with a category that calculateSurvival counts, and
\* the open records with a category that the distribution counts
CountedClosed(filter) ==
    {i \in ClosedMatching(filter) :
        /\ HasCategory(i)
        /\ stores[i].openDate # NullDate
        /\ stores[i].closeDate - stores[i].openDate >= 0}

CountedOpen(filter) ==
    {i \in OpenMatching(filter) :
        /\ HasCategory(i)
        /\ stores[i].openDate # NullDate
        /\ ReferenceDay - stores[i].openDate >= 0}

\* C22: no group returned by calculateSurvival or by the distribution has a
\* null, undefined or empty category, and the sampleSizes (totalCounts) of
\* a response add up to the number of counted records that have a category
C22_NoGroupWithoutCategory ==
    /\ IsSurvivalResponse =>
         /\ \A g \in 1 .. Len(resp.body) :
              resp.body[g].sector \notin {NullSector, NoSector, ""}
         /\ SumSeq([g \in 1 .. Len(resp.body) |-> resp.body[g].sampleSize])
              = Cardinality(CountedClosed(resp.req.sector))
    /\ IsDistributionResponse =>
         /\ \A g \in 1 .. Len(resp.body) :
              resp.body[g].sector \notin {NullSector, NoSector, ""}
         /\ SumSeq([g \in 1 .. Len(resp.body) |-> resp.body[g].totalCount])
              = Cardinality(CountedOpen(resp.req.sector))

\* the distribution half of C22
C22_DistributionSkipsUncategorised ==
    IsDistributionResponse => C22_NoGroupWithoutCategory

\* the distribution has answered over an open record without a category
C22_SeenDistribution ==
    /\ IsDistributionResponse
    /\ resp.req.sector = NoSector
    /\ \E i \in OpenMatching(NoSector) :
         ~HasCategory(i) /\ ReferenceDay - stores[i].openDate >= 0

\* the rows of a table without their timestamps
StatValues(table) ==
    {[sector |-> table[k].sector,
      avg_duration_days |-> table[k].avg_duration_days,
      sample_size |-> table[k].sample_size] : k \in 1 .. Len(table)}

\* C23: a batch run that follows a batch run over the same store data
\* leaves one row per category, each with the avg_duration_days and the
\* sample_size it had after the first run
C23_BatchIdempotent ==
    [][(resp.op = "batch" /\ resp'.op = "batch" /\ nCalls' = nCalls + 1)
        => (/\ StatValues(survival_analysis') = StatValues(survival_analysis)
            /\ \A c \in Categories :
                 Cardinality({k \in 1 .. Len(survival_analysis') :
                                 survival_analysis'[k].sector = c})
                   = IF CountedClosed(c) # {} THEN 1 ELSE 0
            /\ Len(survival_analysis') = Len(survival_analysis))]_vars

\* C23 witness: the batch has run twice, the second time later than the
\* first, and the table holds the rows of two categories
C23_Witness ==
    /\ resp.op = "batch"
    /\ nCalls = 2
    /\ Len(survival_analysis) = 2
    /\ \E k \in 1 .. Len(survival_analysis) :
         survival_analysis[k].updated_at > survival_analysis[k].calculated_at

\* C24: when the storage query of a plain lookup fails, the caller gets the
\* error, the call has made exactly one storage attempt, the failing step
\* leaves the cache as it was, and the call takes no further step, so it
\* writes no cache entry
C24_StorageFailurePropagates ==
    [][\A p \in 1 .. Len(calls) :
          /\ (calls[p].pc = "query" /\ calls'[p].pc = "failed")
                => /\ cache' = cache
                   /\ calls'[p].dbQueries = 1
                   /\ calls'[p].cacheOps = <<"get">>
                   /\ resp'.status = "error"
                   /\ resp'.req = calls[p].req
                   /\ resp'.dbQueries = 1
          /\ calls[p].pc = "failed" => calls'[p] = calls[p]
          /\ calls'[p].dbQueries <= 1]_vars

\* C24 witness: a lookup has failed while the cache holds an entry under
\* its key, written by another call
C24_Witness ==
    \E p \in 1 .. Len(calls) :
        /\ calls[p].pc = "failed"
        /\ calls[p].cacheKey \in DOMAIN cache
        /\ resp.status = "ok"

\* the calls that have completed their cache set
HasSet(q) == calls[q].pc = "done" /\ calls[q].cacheOps = <<"get", "set">>

\* C25: whatever the interleaving, a cache get returns nothing or the whole
\* list that one single set has written under that key before the get
C25_GetReturnsOneWrite ==
    \A p \in 1 .. Len(calls) :
        calls[p].cachedResult.hit =>
            \E q \in 1 .. Len(calls) :
                /\ q # p
                /\ HasSet(q)
                /\ calls[q].cacheKey = calls[p].cacheKey
                /\ calls[q].result = calls[p].cachedResult.value

\* C25 witness: two calls have written different lists under one key and a
\* third call has got the list of one of them
C25_Witness ==
    \E p, q, r \in 1 .. Len(calls) :
        /\ HasSet(q) /\ HasSet(r)
        /\ calls[q].cacheKey = calls[r].cacheKey
        /\ calls[q].result # calls[r].result
        /\ calls[p].cachedResult.hit
        /\ calls[p].cacheKey = calls[q].cacheKey
        /\ calls[p].cachedResult.value = calls[q].result

\* C26: a call of the paged lookup or of the same-category count makes no
\* cache get or set and leaves the cache as it was, and its result is the
\* one the store data gives: the count of the selected records, and for the
\* paged lookup items that are selected records, as many as the page holds
C26_PagedAndCountBypassCache ==
    [][(nCalls' = nCalls + 1 /\ resp'.op \in {"paged", "count"})
        => (/\ cache' = cache
            /\ resp'.cacheOps = <<>>
            /\ resp'.status = "ok" =>
                 LET req == resp'.req
                     sel == Selected(req)
                     body == resp'.body
                 IN  /\ body.totalCount = Cardinality(sel)
                     /\ resp'.op = "paged" =>
                          /\ \A k \in 1 .. Len(body.stores) :
                               body.stores[k].id \in sel
                          /\ Len(body.stores)
                               = Min2(body.limit,
                                      IF Cardinality(sel) > (body.page - 1) * body.limit
                                      THEN Cardinality(sel) - (body.page - 1) * body.limit
                                      ELSE 0))]_vars

\* C26 witness: the count has been answered while the cache holds, under
\* the key of the same inputs, a list of another length
C26_Witness ==
    /\ resp.op = "count" /\ resp.status = "ok"
    /\ LET key == Quantized(resp.req)
       IN  /\ key \in DOMAIN cache
           /\ Len(cache[key].value) # resp.body.totalCount

\* C27: the paged endpoint rejects, before any storage query, a page below
\* 1 and a page size below 1 or above 100, and a page that is returned has
\* a page number of at least 1, a page size within 1 .. 100 and at most 100
\* items (a page or limit of 0 in the request stands for "not given")
C27_PageAndLimitValidated ==
    resp.op = "paged" =>
        /\ (resp.req.page < 0 \/ resp.req.limit < 0 \/ resp.req.limit > 100)
              => resp.status = "bad_request" /\ resp.dbQueries = 0
        /\ resp.status = "ok"
              => /\ resp.body.page >= 1
                 /\ resp.body.limit \in 1 .. 100
                 /\ Len(resp.body.stores) <= 100

\* the part of C27 that the code keeps: with page and limit in range the
\* request is answered with that page and that page size
C27_InRangeAnswered ==
    (/\ resp.op = "paged"
     /\ resp.req.page >= 0
     /\ resp.req.limit \in 0 .. 100)
    => /\ resp.status = "ok"
       /\ resp.body.page = (IF resp.req.page = 0 THEN 1 ELSE resp.req.page)
       /\ resp.body.limit = (IF resp.req.limit = 0 THEN 20 ELSE resp.req.limit)

\* C28: the cache key of a plain lookup made with a category (any string
\* the endpoint accepts, the literal "all" included) differs from the key of
\* the lookup with the same lat, lng and radius and no category
C28_CategoryKeyDiffersFromNoCategory ==
    (/\ resp.op = "list" /\ resp.status = "ok"
     /\ resp.req.sector # NoSector)
    => generateCacheKey(resp.req.lat, resp.req.lng, resp.req.radius,
                        resp.req.sector)
         # generateCacheKey(resp.req.lat, resp.req.lng, resp.req.radius,
                            NoSector)

\* the part of C28 that the code keeps: it holds for every category other
\* than the literal "all"
C28_OtherCategoriesKeyDiffers ==
    resp.req.sector # "all" => C28_CategoryKeyDiffersFromNoCategory

\* a plain lookup with a category other than "all" has been answered
C28_SeenCategory ==
    resp.op = "list" /\ resp.status = "ok" /\ resp.req.sector = "C10"

\* C29: the response of GET /analysis/survival to a request for a category
\* holds groups of that category only, and the response to a request
\* without a category holds a group for every category that has counted
\* closed records
C29_SurvivalResponseMatchesFilter ==
    (resp.op = "survival_endpoint" /\ resp.status = "ok") =>
        LET filter == resp.req.sector
            groups == resp.body
        IN  /\ filter # NoSector =>
                 \A g \in 1 .. Len(groups) : groups[g].sector = filter
            /\ filter = NoSector =>
                 \A c \in Categories :
                     CountedClosed(c) # {} =>
                         \E g \in 1 .. Len(groups) : groups[g].sector = c

\* the part of C29 that the code keeps: a response that the handler has
\* computed matches the filter of its request
C29_ComputedResponseMatchesFilter ==
    (resp.op = "survival_endpoint" /\ resp.dbQueries = 1)
        => C29_SurvivalResponseMatchesFilter

\* the ids of the records on the pages fetched so far, in the order received
RECURSIVE FetchedIds(_)
FetchedIds(k) ==
    IF k = 0 THEN <<>>
    ELSE FetchedIds(k - 1)
         \o [j \in 1 .. Len(fetched[k].body.stores) |->
                fetched[k].body.stores[j].id]

\* the client has received every page 1 .. totalPages of its query
SweepComplete ==
    /\ fetched # <<>>
    /\ \A k \in 1 .. Len(fetched) : fetched[k].status = "ok"
    /\ Len(fetched) >= fetched[1].body.totalPages

\* C30: fetching pages 1 .. totalPages of a fixed paged query over unchanged
\* data yields every matching record exactly once and in the requested sort
\* order across page boundaries, also when records tie on the sort key
C30_SweepYieldsEachRecordOnce ==
    SweepComplete =>
        LET q == fetched[1].req
            ids == FetchedIds(Len(fetched))
        IN  /\ \A a, b \in 1 .. Len(ids) : a # b => ids[a] # ids[b]
            /\ {ids[a] : a \in 1 .. Len(ids)}
                  = MatchingSet(q.lat, q.lng, q.radius, q.sector)
            /\ \A a \in 1 .. Len(ids) - 1 :
                  OrderKey(q.sortBy, ids[a], q.lat, q.lng)
                      <= OrderKey(q.sortBy, ids[a + 1], q.lat, q.lng)

\* the part of C30 that the code keeps: the sweep yields as many records as
\* match, matching records only, in the requested order
C30_SweepInSortOrder ==
    SweepComplete =>
        LET q == fetched[1].req
            ids == FetchedIds(Len(fetched))
        IN  /\ Len(ids) = fetched[1].body.totalCount
            /\ \A a \in 1 .. Len(ids) :
                  ids[a] \in MatchingSet(q.lat, q.lng, q.radius, q.sector)
            /\ \A a \in 1 .. Len(ids) - 1 :
                  OrderKey(q.sortBy, ids[a], q.lat, q.lng)
                      <= OrderKey(q.sortBy, ids[a + 1], q.lat, q.lng)

\* a sweep of more than one page has been completed
C30_SeenSweep == SweepComplete /\ Len(fetched) >= 2

====
